---- MODULE Spec2Model ----
(***************************************************************************)
(* A model of the code agent of src/main.go: the conversation loop         *)
(* (Agent.Run), the tool dispatch (Agent.executeTool) and the three file   *)
(* tools (ReadFile, ListFiles, EditFile) acting on a small filesystem.     *)
(*                                                                         *)
(* Strings are sequences of one-character strings.  A path is a record     *)
(* [abs, comps]: whether it starts at the root, and its components.  The   *)
(* filesystem is a function from the nodes that exist (sequences of names  *)
(* from the root) to a directory or a file with its content.               *)
(***************************************************************************)
EXTENDS Integers, Sequences, FiniteSets, TLC

VARIABLES
    pc,             \* where Agent.Run is: "top", "infer", "process", or an end
    conversation,   \* Run's local slice of turns
    readUserInput,  \* Run's local flag
    message,        \* the reply being processed (its content segments)
    idx,            \* processClaudeResponse's position in message (1-based)
    toolResults,    \* processClaudeResponse's local slice
    fs,             \* the filesystem
    linesRead,      \* lines the scanner has delivered
    inferCalls,     \* calls of runInference so far
    lastErr,        \* the error Run returned or the panic raised, "" if none
    sent,           \* Messages of the latest inference request, <<>> before it
    env,            \* the value of ANTHROPIC_API_KEY in the environment, "" if unset
    configFile,     \* config.env: whether it can be read, and its lines
    apiKey          \* what loadAPIKey returned

vars == <<pc, conversation, readUserInput, message, idx, toolResults, fs,
          linesRead, inferCalls, lastErr, sent, env, configFile, apiKey>>

\* ---------------------------------------------------------------- bounds

\* Lines the user types before end-of-input, at most.
MaxLines == 2
\* Inference calls in one run, at most.
MaxInfer == 3

\* ------------------------------------------------------- strings and paths

Path(abs, comps) == [abs |-> abs, comps |-> comps]
\* The Go string "" used as a path.
EmptyPath == Path(FALSE, <<>>)
Rel1(a) == Path(FALSE, <<a>>)
Rel2(a, b) == Path(FALSE, <<a, b>>)

\* The process working directory, a node of the filesystem.
Cwd == <<"w">>

Parent(node) == IF node = <<>> THEN <<>> ELSE SubSeq(node, 1, Len(node) - 1)

IsDir(f, node) == node \in DOMAIN f /\ f[node].k \in {"dir", "locked"}
IsFile(f, node) == node \in DOMAIN f /\ f[node].k = "file"

DirEntry == [k |-> "dir", c |-> <<>>]
\* A directory the process has no permission to read or search.
LockedEntry == [k |-> "locked", c |-> <<>>]
FileEntry(c) == [k |-> "file", c |-> c]

\* f with node bound to entry e.
Put(f, node, e) ==
    [n \in DOMAIN f \cup {node} |-> IF n = node THEN e ELSE f[n]]

\* The kernel's path walk: every component but the last is looked up in an
\* existing directory.  Returns the node the path names (which may not exist).
RECURSIVE WalkFrom(_, _, _, _)
WalkFrom(f, cur, comps, i) ==
    IF i > Len(comps) THEN [err |-> "", node |-> cur]
    ELSE IF cur \notin DOMAIN f THEN [err |-> "ENOENT", node |-> cur]
    ELSE IF f[cur].k = "file" THEN [err |-> "ENOTDIR", node |-> cur]
    ELSE IF f[cur].k = "locked" THEN [err |-> "EACCES", node |-> cur]
    ELSE LET c == comps[i]
             nxt == IF c = "." THEN cur
                    ELSE IF c = ".." THEN Parent(cur)
                    ELSE Append(cur, c)
         IN WalkFrom(f, nxt, comps, i + 1)

Resolve(f, p) ==
    IF p = EmptyPath THEN [err |-> "ENOENT", node |-> Cwd]
    ELSE WalkFrom(f, IF p.abs THEN <<>> ELSE Cwd, p.comps, 1)

\* os.ReadFile
osReadFile(f, p) ==
    LET r == Resolve(f, p) IN
    IF r.err # "" THEN [err |-> r.err, data |-> <<>>]
    ELSE IF r.node \notin DOMAIN f THEN [err |-> "ENOENT", data |-> <<>>]
    ELSE IF f[r.node].k = "dir" THEN [err |-> "EISDIR", data |-> <<>>]
    ELSE IF f[r.node].k = "locked" THEN [err |-> "EACCES", data |-> <<>>]
    ELSE [err |-> "", data |-> f[r.node].c]

\* os.WriteFile: creates or truncates the file; never makes a directory.
osWriteFile(f, p, data) ==
    LET r == Resolve(f, p) IN
    IF r.err # "" THEN [err |-> r.err, fs |-> f]
    ELSE IF IsDir(f, r.node) THEN [err |-> "EISDIR", fs |-> f]
    ELSE [err |-> "", fs |-> Put(f, r.node, FileEntry(data))]

\* os.MkdirAll: makes every missing directory along the path.
RECURSIVE MkdirFrom(_, _, _, _)
MkdirFrom(f, cur, comps, i) ==
    IF i > Len(comps) THEN [err |-> "", fs |-> f]
    ELSE LET c == comps[i]
             nxt == IF c = "." THEN cur
                    ELSE IF c = ".." THEN Parent(cur)
                    ELSE Append(cur, c)
         IN IF f[cur].k = "locked" THEN [err |-> "EACCES", fs |-> f]
            ELSE IF IsFile(f, nxt) THEN [err |-> "ENOTDIR", fs |-> f]
            ELSE MkdirFrom(IF nxt \in DOMAIN f THEN f ELSE Put(f, nxt, DirEntry),
                           nxt, comps, i + 1)

osMkdirAll(f, p) ==
    IF p = EmptyPath THEN [err |-> "ENOENT", fs |-> f]
    ELSE MkdirFrom(f, IF p.abs THEN <<>> ELSE Cwd, p.comps, 1)

\* path.Clean: drops "." elements, and each ".." with the element before it
\* (a ".." at the root is dropped; a leading ".." of a relative path stays).
RECURSIVE CleanFrom(_, _, _, _)
CleanFrom(abs, comps, i, out) ==
    IF i > Len(comps) THEN out
    ELSE LET c == comps[i] IN
         CleanFrom(abs, comps, i + 1,
                   IF c = "." THEN out
                   ELSE IF c = ".."
                       THEN (IF out # <<>> /\ out[Len(out)] # ".."
                                 THEN SubSeq(out, 1, Len(out) - 1)
                             ELSE IF abs THEN out
                             ELSE Append(out, ".."))
                   ELSE Append(out, c))

pathClean(p) ==
    LET out == CleanFrom(p.abs, p.comps, 1, <<>>) IN
    IF out = <<>> /\ ~p.abs THEN Rel1(".") ELSE Path(p.abs, out)

\* path.Dir: all but the last element, cleaned; "." when nothing is left.
pathDir(p) ==
    pathClean(Path(p.abs, SubSeq(p.comps, 1, Len(p.comps) - 1)))

\* ------------------------------------------------- texts the tools return

\* A Go string a tool returns or an error's message: k tells which of the
\* fields carry it.
Txt(k, m, p, cause, s, items, null) ==
    [k |-> k, m |-> m, p |-> p, cause |-> cause, s |-> s, items |-> items,
     null |-> null]
\* string(content): a file's content, verbatim.
StrText(s) == Txt("str", "", EmptyPath, "", s, <<>>, FALSE)
\* A fixed message.
MsgText(m) == Txt("msg", m, EmptyPath, "", <<>>, <<>>, FALSE)
\* A message that names a path, and the cause when there is one.
PathText(m, p, cause) == Txt("path", m, p, cause, <<>>, <<>>, FALSE)
\* json.Marshal of a []string: "null" for the nil slice.
JsonText(items) == Txt("json", "", EmptyPath, "", <<>>, items, items = <<>>)

\* What a tool function does: the text or the error it returns, the
\* filesystem it leaves, and whether it panicked instead of returning.
ToolOut(resp, isErr, f, panicked) ==
    [resp |-> resp, isErr |-> isErr, fs |-> f, panicked |-> panicked]

\* ------------------------------------------------------------- json input

\* A tool_use input: obj tells a JSON object from any other JSON value;
\* fields maps the object's member names to values [t |-> "str", v |-> ...],
\* [t |-> "num"] or [t |-> "null"].
JStr(v) == [t |-> "str", v |-> v]
JNum == [t |-> "num"]
Obj(fields) == [obj |-> TRUE, fields |-> fields]
NoFields == [x \in {} |-> JNum]

\* json.Unmarshal into a struct with the string fields `shape`: members the
\* struct lacks are ignored, missing members keep the zero value, and a
\* member of the wrong type is an error.
jsonUnmarshalOk(input, shape) ==
    /\ input.obj
    /\ \A fld \in shape \cap DOMAIN input.fields :
           input.fields[fld].t \in {"str", "null"}

Field(input, fld, zero) ==
    IF fld \in DOMAIN input.fields /\ input.fields[fld].t = "str"
        THEN input.fields[fld].v
        ELSE zero

\* ---------------------------------------------------------------- read_file

\* ReadFile wrapping the error without the path.
ReadFileErrorWithoutPath(input, f) ==
    IF ~jsonUnmarshalOk(input, {"path"})
        THEN ToolOut(MsgText("invalid input format"), TRUE, f, FALSE)
    ELSE LET path == Field(input, "path", EmptyPath)
             r == osReadFile(f, path)
         IN IF r.err # ""
                THEN ToolOut(PathText("failed to read file", EmptyPath, r.err),
                             TRUE, f, FALSE)
                ELSE ToolOut(StrText(r.data), FALSE, f, FALSE)

ReadFile(input, f) ==
    IF ~jsonUnmarshalOk(input, {"path"})
        THEN ToolOut(MsgText("invalid input format"), TRUE, f, FALSE)
    ELSE LET path == Field(input, "path", EmptyPath)
             r == osReadFile(f, path)
         IN IF r.err # ""
                THEN ToolOut(PathText("failed to read file", path, r.err),
                             TRUE, f, FALSE)
                ELSE ToolOut(StrText(r.data), FALSE, f, FALSE)

\* --------------------------------------------------------------- list_files

\* The names a directory can hold, in the lexical order filepath.Walk visits.
NameOrder == <<"d", "e", "f", "g", "n", "o", "w">>

Item(rel, isDir) == [comps |-> rel, dir |-> isDir]

\* A walk that lists a directory it cannot read and goes on.
RECURSIVE walkSkipsUnreadable(_, _, _, _)
walkSkipsUnreadable(f, node, rel, i) ==
    IF i > Len(NameOrder) THEN [err |-> "", items |-> <<>>]
    ELSE LET child == Append(node, NameOrder[i])
             crel == Append(rel, NameOrder[i])
             here ==
                 IF child \notin DOMAIN f THEN [err |-> "", items |-> <<>>]
                 ELSE IF f[child].k = "file"
                     THEN [err |-> "", items |-> <<Item(crel, FALSE)>>]
                 ELSE IF f[child].k = "locked"
                     THEN [err |-> "", items |-> <<Item(crel, TRUE)>>]
                 ELSE LET sub == walkSkipsUnreadable(f, child, crel, 1) IN
                      [err |-> sub.err,
                       items |-> <<Item(crel, TRUE)>> \o sub.items]
         IN IF here.err # "" THEN [err |-> here.err, items |-> <<>>]
            ELSE LET rest == walkSkipsUnreadable(f, node, rel, i + 1) IN
                 IF rest.err # "" THEN [err |-> rest.err, items |-> <<>>]
                 ELSE [err |-> "", items |-> here.items \o rest.items]

\* filepath.Walk's visits below a readable directory, each as ListFiles'
\* callback appends it: the path relative to the root, with "/" for a
\* directory.  A directory that cannot be read makes the callback return the
\* error, which ends the walk.
RECURSIVE walk(_, _, _, _)
walk(f, node, rel, i) ==
    IF i > Len(NameOrder) THEN [err |-> "", items |-> <<>>]
    ELSE LET child == Append(node, NameOrder[i])
             crel == Append(rel, NameOrder[i])
             here ==
                 IF child \notin DOMAIN f THEN [err |-> "", items |-> <<>>]
                 ELSE IF f[child].k = "file"
                     THEN [err |-> "", items |-> <<Item(crel, FALSE)>>]
                 ELSE IF f[child].k = "locked"
                     THEN [err |-> "EACCES", items |-> <<>>]
                 ELSE LET sub == walk(f, child, crel, 1) IN
                      [err |-> sub.err,
                       items |-> <<Item(crel, TRUE)>> \o sub.items]
         IN IF here.err # "" THEN [err |-> here.err, items |-> <<>>]
            ELSE LET rest == walk(f, node, rel, i + 1) IN
                 IF rest.err # "" THEN [err |-> rest.err, items |-> <<>>]
                 ELSE [err |-> "", items |-> here.items \o rest.items]

ListFiles(input, f) ==
    IF ~jsonUnmarshalOk(input, {"path"})
        THEN ToolOut(MsgText("panic"), TRUE, f, TRUE)
    ELSE LET given == Field(input, "path", EmptyPath)
             dir == IF given # EmptyPath THEN given ELSE Rel1(".")
             r == Resolve(f, dir)
         IN IF r.err # "" \/ r.node \notin DOMAIN f
                THEN ToolOut(PathText("lstat", dir,
                                      IF r.err # "" THEN r.err ELSE "ENOENT"),
                             TRUE, f, FALSE)
            ELSE IF f[r.node].k = "file"
                THEN ToolOut(JsonText(<<>>), FALSE, f, FALSE)
            ELSE IF f[r.node].k = "locked"
                THEN ToolOut(PathText("open", dir, "EACCES"), TRUE, f, FALSE)
            ELSE LET w == walk(f, r.node, <<>>, 1) IN
                 IF w.err # ""
                     THEN ToolOut(PathText("open", dir, w.err), TRUE, f, FALSE)
                     ELSE ToolOut(JsonText(w.items), FALSE, f, FALSE)

\* ---------------------------------------------------------------- edit_file

\* strings.Replace(s, old, new, -1)
RECURSIVE ReplaceEmpty(_, _)
ReplaceEmpty(s, new) ==
    IF s = <<>> THEN new
    ELSE new \o <<Head(s)>> \o ReplaceEmpty(Tail(s), new)

RECURSIVE ReplaceNonEmpty(_, _, _)
ReplaceNonEmpty(s, old, new) ==
    IF Len(s) < Len(old) THEN s
    ELSE IF SubSeq(s, 1, Len(old)) = old
        THEN new \o ReplaceNonEmpty(SubSeq(s, Len(old) + 1, Len(s)), old, new)
        ELSE <<Head(s)>> \o ReplaceNonEmpty(Tail(s), old, new)

\* strings.Replace with n = 1: only the first occurrence.
stringsReplaceFirst(s, old, new) ==
    IF old = new THEN s
    ELSE IF old = <<>> THEN new \o s
    ELSE IF \E i \in 1..(Len(s) - Len(old) + 1) :
                SubSeq(s, i, i + Len(old) - 1) = old
        THEN LET i == CHOOSE j \in 1..(Len(s) - Len(old) + 1) :
                          /\ SubSeq(s, j, j + Len(old) - 1) = old
                          /\ \A k \in 1..(j - 1) :
                                 SubSeq(s, k, k + Len(old) - 1) # old
             IN SubSeq(s, 1, i - 1) \o new \o SubSeq(s, i + Len(old), Len(s))
        ELSE s

stringsReplace(s, old, new) ==
    IF old = new THEN s
    ELSE IF old = <<>> THEN ReplaceEmpty(s, new)
    ELSE ReplaceNonEmpty(s, old, new)

\* createNewFile without the os.MkdirAll of the parent directory.
createNewFileNoMkdirAll(filePath, content, f) ==
    LET w == osWriteFile(f, filePath, content) IN
    IF w.err # ""
        THEN ToolOut(PathText("failed to create file", filePath, w.err),
                     TRUE, w.fs, FALSE)
        ELSE ToolOut(PathText("Successfully created file", filePath, ""),
                     FALSE, w.fs, FALSE)

createNewFile(filePath, content, f) ==
    LET dir == pathDir(filePath)
        m == IF dir # Rel1(".") THEN osMkdirAll(f, dir) ELSE [err |-> "", fs |-> f]
    IN IF m.err # ""
           THEN ToolOut(PathText("failed to create directory", dir, m.err),
                        TRUE, m.fs, FALSE)
       ELSE LET w == osWriteFile(m.fs, filePath, content) IN
            IF w.err # ""
                THEN ToolOut(PathText("failed to create file", filePath, w.err),
                             TRUE, w.fs, FALSE)
                ELSE ToolOut(PathText("Successfully created file", filePath, ""),
                             FALSE, w.fs, FALSE)

\* EditFile without the "old_str not found" check.
EditFileNoNotFound(input, f) ==
    IF ~jsonUnmarshalOk(input, {"path", "old_str", "new_str"})
        THEN ToolOut(MsgText("json: cannot unmarshal"), TRUE, f, FALSE)
    ELSE LET path == Field(input, "path", EmptyPath)
             OldStr == Field(input, "old_str", <<>>)
             NewStr == Field(input, "new_str", <<>>)
         IN IF path = EmptyPath \/ OldStr = NewStr
                THEN ToolOut(MsgText("invalid input parameters"), TRUE, f, FALSE)
            ELSE LET r == osReadFile(f, path) IN
                 IF r.err # ""
                     THEN (IF r.err = "ENOENT" /\ OldStr = <<>>
                               THEN createNewFile(path, NewStr, f)
                               ELSE ToolOut(PathText("open", path, r.err),
                                            TRUE, f, FALSE))
                 ELSE LET oldContent == r.data
                          newContent == stringsReplace(oldContent, OldStr, NewStr)
                      IN IF FALSE
                             THEN ToolOut(MsgText("old_str not found in file"),
                                          TRUE, f, FALSE)
                         ELSE LET w == osWriteFile(f, path, newContent) IN
                              IF w.err # ""
                                  THEN ToolOut(PathText("open", path, w.err),
                                               TRUE, w.fs, FALSE)
                                  ELSE ToolOut(MsgText("OK"), FALSE, w.fs, FALSE)

\* EditFile answering something other than the fixed "OK".
EditFileReportsCount(input, f) ==
    IF ~jsonUnmarshalOk(input, {"path", "old_str", "new_str"})
        THEN ToolOut(MsgText("json: cannot unmarshal"), TRUE, f, FALSE)
    ELSE LET path == Field(input, "path", EmptyPath)
             OldStr == Field(input, "old_str", <<>>)
             NewStr == Field(input, "new_str", <<>>)
         IN IF path = EmptyPath \/ OldStr = NewStr
                THEN ToolOut(MsgText("invalid input parameters"), TRUE, f, FALSE)
            ELSE LET r == osReadFile(f, path) IN
                 IF r.err # ""
                     THEN (IF r.err = "ENOENT" /\ OldStr = <<>>
                               THEN createNewFile(path, NewStr, f)
                               ELSE ToolOut(PathText("open", path, r.err),
                                            TRUE, f, FALSE))
                 ELSE LET oldContent == r.data
                          newContent == stringsReplace(oldContent, OldStr, NewStr)
                      IN IF oldContent = newContent /\ OldStr # <<>>
                             THEN ToolOut(MsgText("old_str not found in file"),
                                          TRUE, f, FALSE)
                         ELSE LET w == osWriteFile(f, path, newContent) IN
                              IF w.err # ""
                                  THEN ToolOut(PathText("open", path, w.err),
                                               TRUE, w.fs, FALSE)
                                  ELSE ToolOut(MsgText("replaced"), FALSE, w.fs, FALSE)

\* EditFile creating a missing file whatever old_str is.
EditFileAlwaysCreates(input, f) ==
    IF ~jsonUnmarshalOk(input, {"path", "old_str", "new_str"})
        THEN ToolOut(MsgText("json: cannot unmarshal"), TRUE, f, FALSE)
    ELSE LET path == Field(input, "path", EmptyPath)
             OldStr == Field(input, "old_str", <<>>)
             NewStr == Field(input, "new_str", <<>>)
         IN IF path = EmptyPath \/ OldStr = NewStr
                THEN ToolOut(MsgText("invalid input parameters"), TRUE, f, FALSE)
            ELSE LET r == osReadFile(f, path) IN
                 IF r.err # ""
                     THEN (IF r.err = "ENOENT"
                               THEN createNewFile(path, NewStr, f)
                               ELSE ToolOut(PathText("open", path, r.err),
                                            TRUE, f, FALSE))
                 ELSE LET oldContent == r.data
                          newContent == stringsReplace(oldContent, OldStr, NewStr)
                      IN IF oldContent = newContent /\ OldStr # <<>>
                             THEN ToolOut(MsgText("old_str not found in file"),
                                          TRUE, f, FALSE)
                         ELSE LET w == osWriteFile(f, path, newContent) IN
                              IF w.err # ""
                                  THEN ToolOut(PathText("open", path, w.err),
                                               TRUE, w.fs, FALSE)
                                  ELSE ToolOut(MsgText("OK"), FALSE, w.fs, FALSE)

\* EditFile comparing old_str with new_str only once the file has been read.
EditFileValidatesLate(input, f) ==
    IF ~jsonUnmarshalOk(input, {"path", "old_str", "new_str"})
        THEN ToolOut(MsgText("json: cannot unmarshal"), TRUE, f, FALSE)
    ELSE LET path == Field(input, "path", EmptyPath)
             OldStr == Field(input, "old_str", <<>>)
             NewStr == Field(input, "new_str", <<>>)
         IN LET r == osReadFile(f, path) IN
                 IF path = EmptyPath \/ (OldStr = NewStr /\ r.err = "")
                     THEN ToolOut(MsgText("invalid input parameters"), TRUE, f, FALSE)
                 ELSE IF r.err # ""
                     THEN (IF r.err = "ENOENT" /\ OldStr = <<>>
                               THEN createNewFile(path, NewStr, f)
                               ELSE ToolOut(PathText("open", path, r.err),
                                            TRUE, f, FALSE))
                 ELSE LET oldContent == r.data
                          newContent == stringsReplace(oldContent, OldStr, NewStr)
                      IN IF oldContent = newContent /\ OldStr # <<>>
                             THEN ToolOut(MsgText("old_str not found in file"),
                                          TRUE, f, FALSE)
                         ELSE LET w == osWriteFile(f, path, newContent) IN
                              IF w.err # ""
                                  THEN ToolOut(PathText("open", path, w.err),
                                               TRUE, w.fs, FALSE)
                                  ELSE ToolOut(MsgText("OK"), FALSE, w.fs, FALSE)

\* EditFile taking an empty old_str on an existing file as an overwrite.
EditFileOverwrites(input, f) ==
    IF ~jsonUnmarshalOk(input, {"path", "old_str", "new_str"})
        THEN ToolOut(MsgText("json: cannot unmarshal"), TRUE, f, FALSE)
    ELSE LET path == Field(input, "path", EmptyPath)
             OldStr == Field(input, "old_str", <<>>)
             NewStr == Field(input, "new_str", <<>>)
         IN IF path = EmptyPath \/ OldStr = NewStr
                THEN ToolOut(MsgText("invalid input parameters"), TRUE, f, FALSE)
            ELSE LET r == osReadFile(f, path) IN
                 IF r.err # ""
                     THEN (IF r.err = "ENOENT" /\ OldStr = <<>>
                               THEN createNewFile(path, NewStr, f)
                               ELSE ToolOut(PathText("open", path, r.err),
                                            TRUE, f, FALSE))
                 ELSE LET oldContent == r.data
                          newContent == IF OldStr = <<>> THEN NewStr
                                        ELSE stringsReplace(oldContent, OldStr, NewStr)
                      IN IF oldContent = newContent /\ OldStr # <<>>
                             THEN ToolOut(MsgText("old_str not found in file"),
                                          TRUE, f, FALSE)
                         ELSE LET w == osWriteFile(f, path, newContent) IN
                              IF w.err # ""
                                  THEN ToolOut(PathText("open", path, w.err),
                                               TRUE, w.fs, FALSE)
                                  ELSE ToolOut(MsgText("OK"), FALSE, w.fs, FALSE)

EditFile(input, f) ==
    IF ~jsonUnmarshalOk(input, {"path", "old_str", "new_str"})
        THEN ToolOut(MsgText("json: cannot unmarshal"), TRUE, f, FALSE)
    ELSE LET path == Field(input, "path", EmptyPath)
             OldStr == Field(input, "old_str", <<>>)
             NewStr == Field(input, "new_str", <<>>)
         IN IF path = EmptyPath \/ OldStr = NewStr
                THEN ToolOut(MsgText("invalid input parameters"), TRUE, f, FALSE)
            ELSE LET r == osReadFile(f, path) IN
                 IF r.err # ""
                     THEN (IF r.err = "ENOENT" /\ OldStr = <<>>
                               THEN createNewFile(path, NewStr, f)
                               ELSE ToolOut(PathText("open", path, r.err),
                                            TRUE, f, FALSE))
                 ELSE LET oldContent == r.data
                          newContent == stringsReplace(oldContent, OldStr, NewStr)
                      IN IF oldContent = newContent /\ OldStr # <<>>
                             THEN ToolOut(MsgText("old_str not found in file"),
                                          TRUE, f, FALSE)
                         ELSE LET w == osWriteFile(f, path, newContent) IN
                              IF w.err # ""
                                  THEN ToolOut(PathText("open", path, w.err),
                                               TRUE, w.fs, FALSE)
                                  ELSE ToolOut(MsgText("OK"), FALSE, w.fs, FALSE)

\* ------------------------------------------------------------ conversation

TextBlock(t) == [type |-> "text", text |-> t]
ToolUseBlock(id, name, input) ==
    [type |-> "tool_use", id |-> id, name |-> name, input |-> input]
\* anthropic.NewToolResultBlock(id, content, isError)
NewToolResultBlock(id, content, isError) ==
    [type |-> "tool_result", id |-> id, content |-> content, isError |-> isError]
\* A content block of a type Run does not look at.
ThinkingBlock == [type |-> "thinking"]

Turn(role, content) == [role |-> role, content |-> content]
\* anthropic.NewUserMessage(blocks...)
NewUserMessage(blocks) == Turn("user", blocks)
\* message.ToParam(): the reply as an assistant turn, block for block.
ToParam(msg) == Turn("assistant", msg)

\* ----------------------------------------------------------- tool dispatch

\* main's tools list, by name.
Tools == <<"read_file", "list_files", "edit_file">>

\* toolDef.Function(input) of the tool named name.
Function(name, input, f) ==
    IF name = "read_file" THEN ReadFile(input, f)
    ELSE IF name = "list_files" THEN ListFiles(input, f)
    ELSE EditFile(input, f)

\* executeTool answering under the tool's name instead of the invocation's id.
executeToolNameAsId(id, name, input, f) ==
    LET found == \E i \in 1..Len(Tools) : Tools[i] = name IN
    IF ~found
        THEN [result |-> NewToolResultBlock(name, MsgText("tool not found"), TRUE),
              fs |-> f, panicked |-> FALSE]
    ELSE LET out == Function(name, input, f) IN
         [result |-> NewToolResultBlock(name, out.resp, out.isErr),
          fs |-> out.fs, panicked |-> out.panicked]

\* executeTool without the lookup: every name is dispatched.
executeToolNoLookup(id, name, input, f) ==
    LET out == Function(name, input, f) IN
    [result |-> NewToolResultBlock(id, out.resp, out.isErr),
     fs |-> out.fs, panicked |-> out.panicked]

\* executeTool reporting every returned text as a success.
executeToolNeverError(id, name, input, f) ==
    LET found == \E i \in 1..Len(Tools) : Tools[i] = name IN
    IF ~found
        THEN [result |-> NewToolResultBlock(id, MsgText("tool not found"), TRUE),
              fs |-> f, panicked |-> FALSE]
    ELSE LET out == Function(name, input, f) IN
         [result |-> NewToolResultBlock(id, out.resp, FALSE),
          fs |-> out.fs, panicked |-> out.panicked]

\* Agent.executeTool on the filesystem f: the tool-result block, the
\* filesystem afterwards, and whether the tool panicked (no block then).
executeTool(id, name, input, f) ==
    LET found == \E i \in 1..Len(Tools) : Tools[i] = name IN
    IF ~found
        THEN [result |-> NewToolResultBlock(id, MsgText("tool not found"), TRUE),
              fs |-> f, panicked |-> FALSE]
    ELSE LET out == Function(name, input, f) IN
         [result |-> NewToolResultBlock(id, out.resp, out.isErr),
          fs |-> out.fs, panicked |-> out.panicked]

\* ----------------------------------------------------------------- startup

\* The number of characters of the key that initializeClient prints.
KeyShown == 20

\* A string of n characters c.
Chars(c, n) == [i \in 1..n |-> c]

\* "ANTHROPIC_API_KEY="
KeyPrefix ==
    <<"A", "N", "T", "H", "R", "O", "P", "I", "C", "_", "A", "P", "I", "_",
      "K", "E", "Y", "=">>
stringsHasPrefix(s, prefix) ==
    Len(s) >= Len(prefix) /\ SubSeq(s, 1, Len(prefix)) = prefix
stringsTrimPrefix(s, prefix) ==
    IF stringsHasPrefix(s, prefix) THEN SubSeq(s, Len(prefix) + 1, Len(s)) ELSE s

\* config.env: ok tells whether os.ReadFile succeeds, lines is
\* strings.Split(string(data), "\n").
ConfigFile(lines) == [ok |-> TRUE, lines |-> lines]
NoConfigFile == [ok |-> FALSE, lines |-> <<>>]

\* The first line of lines, from i on, that starts with the prefix, trimmed;
\* "" when there is none.
RECURSIVE firstKeyLine(_, _)
firstKeyLine(lines, i) ==
    IF i > Len(lines) THEN <<>>
    ELSE IF stringsHasPrefix(lines[i], KeyPrefix)
        THEN stringsTrimPrefix(lines[i], KeyPrefix)
        ELSE firstKeyLine(lines, i + 1)

loadAPIKey(e, cfg) ==
    IF e # <<>> THEN e
    ELSE IF cfg.ok THEN firstKeyLine(cfg.lines, 1)
    ELSE <<>>

\* The key a started process holds.
StartedKey == Chars("e", KeyShown)

\* ------------------------------------------------------------------ inputs

\* What the user can type.
UserLines == {<<"h", "i">>}

\* Errors the inference call can return.
InferenceErrors == {"overloaded_error", "connection refused"}

\* Tool invocations the model can ask for.
cRead == [name |-> "read_file", input |-> Obj([path |-> JStr(Rel1("f"))])]
cReadMissing == [name |-> "read_file", input |-> Obj([path |-> JStr(Rel1("n"))])]
cReadBad == [name |-> "read_file", input |-> Obj([path |-> JNum])]
cList == [name |-> "list_files", input |-> Obj(NoFields)]
cListBad == [name |-> "list_files", input |-> Obj([path |-> JNum])]
cEdit == [name |-> "edit_file",
          input |-> Obj([path |-> JStr(Rel1("f")), old_str |-> JStr(<<"a">>),
                         new_str |-> JStr(<<"b">>)])]
cCreate == [name |-> "edit_file",
            input |-> Obj([path |-> JStr(Rel1("n")), old_str |-> JStr(<<>>),
                           new_str |-> JStr(<<"b">>)])]
cEditBad == [name |-> "edit_file", input |-> [obj |-> FALSE, fields |-> NoFields]]
cUnknown == [name |-> "bash", input |-> Obj(NoFields)]

Calls == {cRead, cReadMissing, cReadBad, cList, cListBad, cEdit, cCreate,
          cEditBad, cUnknown}

Use(id, c) == ToolUseBlock(id, c.name, c.input)

\* Replies the model can give: no content, content without tool use, one
\* invocation of each kind, and several invocations in one reply.
Replies ==
    {<<>>, <<TextBlock("ok")>>, <<ThinkingBlock>>,
     <<TextBlock("ok"), ThinkingBlock>>}
    \cup {<<Use("t1", c)>> : c \in Calls}
    \cup {<<TextBlock("ok"), Use("t2", c)>> : c \in {cRead, cUnknown}}
    \cup {<<Use("t1", cEdit), Use("t2", cRead)>>,
          <<Use("t1", cRead), Use("t2", cEdit)>>,
          <<Use("t1", cCreate), TextBlock("ok"), Use("t2", cReadMissing)>>,
          <<Use("t1", cUnknown), Use("t2", cList)>>,
          <<Use("t1", cEdit), Use("t1", cEdit)>>,
          <<Use("t1", cListBad), Use("t2", cEdit)>>,
          <<Use("t2", cReadBad), Use("t1", cCreate), Use("t3", cList)>>}

\* The filesystem at startup: the working directory w with a file f and a
\* directory d holding a file g, and a file o outside the working directory.
InitFs ==
    (<<>> :> DirEntry) @@ (<<"w">> :> DirEntry)
    @@ (<<"w", "f">> :> FileEntry(<<"a", "b", "a">>))
    @@ (<<"w", "d">> :> DirEntry)
    @@ (<<"w", "d", "g">> :> FileEntry(<<>>))
    @@ (<<"o">> :> FileEntry(<<"b">>))

\* --------------------------------------------------------------- Agent.Run

Init ==
    /\ pc = "top"
    /\ conversation = <<>>
    /\ readUserInput = TRUE
    /\ message = <<>>
    /\ idx = 1
    /\ toolResults = <<>>
    /\ fs = InitFs
    /\ linesRead = 0
    /\ inferCalls = 0
    /\ lastErr = ""
    /\ sent = <<>>
    /\ env = StartedKey
    /\ configFile = NoConfigFile
    /\ apiKey = StartedKey

\* ReadLine reading at every turn of the loop, tool results pending or not.
ReadLineEveryIteration ==
    /\ pc = "top"
    /\ linesRead < MaxLines
    /\ \E userInput \in UserLines :
           conversation' =
               Append(conversation, NewUserMessage(<<TextBlock(userInput)>>))
    /\ readUserInput' = FALSE
    /\ linesRead' = linesRead + 1
    /\ pc' = "infer"
    /\ UNCHANGED <<env, configFile, apiKey>>
    /\ UNCHANGED <<message, idx, toolResults, fs, inferCalls, lastErr, sent>>

\* getUserMessage returns a line: it is appended as a user turn.
ReadLine ==
    /\ pc = "top"
    /\ readUserInput
    /\ linesRead < MaxLines
    /\ \E userInput \in UserLines :
           conversation' =
               Append(conversation, NewUserMessage(<<TextBlock(userInput)>>))
    /\ readUserInput' = FALSE
    /\ linesRead' = linesRead + 1
    /\ pc' = "infer"
    /\ UNCHANGED <<env, configFile, apiKey>>
    /\ UNCHANGED <<message, idx, toolResults, fs, inferCalls, lastErr, sent>>

\* ReadEOF reading at every turn of the loop, tool results pending or not.
ReadEOFAlways ==
    /\ pc = "top"
    /\ readUserInput' = FALSE
    /\ pc' = "closed"
    /\ UNCHANGED <<env, configFile, apiKey>>
    /\ UNCHANGED <<conversation, message, idx, toolResults, fs, linesRead,
                   inferCalls, lastErr, sent>>

\* getUserMessage returns !ok: break, and Run returns nil.
ReadEOF ==
    /\ pc = "top"
    /\ readUserInput
    /\ readUserInput' = FALSE
    /\ pc' = "closed"
    /\ UNCHANGED <<env, configFile, apiKey>>
    /\ UNCHANGED <<conversation, message, idx, toolResults, fs, linesRead,
                   inferCalls, lastErr, sent>>

\* The loop head with readUserInput false: straight to the inference call.
SkipRead ==
    /\ pc = "top"
    /\ ~readUserInput
    /\ pc' = "infer"
    /\ UNCHANGED <<env, configFile, apiKey>>
    /\ UNCHANGED <<conversation, readUserInput, message, idx, toolResults, fs,
                   linesRead, inferCalls, lastErr, sent>>

\* InferFail retrying the call instead of returning the error.
InferFailRetries ==
    /\ pc = "infer"
    /\ inferCalls < MaxInfer
    /\ inferCalls' = inferCalls + 1
    /\ sent' = conversation
    /\ \E e \in InferenceErrors : lastErr' = e
    /\ pc' = "infer"
    /\ UNCHANGED <<env, configFile, apiKey>>
    /\ UNCHANGED <<conversation, readUserInput, message, idx, toolResults, fs,
                   linesRead>>

\* runInference is called with the whole conversation (Messages) and fails:
\* Run returns the error, whatever it is.
InferFail ==
    /\ pc = "infer"
    /\ inferCalls < MaxInfer
    /\ inferCalls' = inferCalls + 1
    /\ sent' = conversation
    /\ \E e \in InferenceErrors : lastErr' = e
    /\ pc' = "failed"
    /\ UNCHANGED <<env, configFile, apiKey>>
    /\ UNCHANGED <<conversation, readUserInput, message, idx, toolResults, fs,
                   linesRead>>

\* runInference is called with the whole conversation (Messages) and
\* returns a reply: it is appended as the assistant turn and
\* processClaudeResponse starts on it with no tool results.
InferOk ==
    /\ pc = "infer"
    /\ inferCalls < MaxInfer
    /\ inferCalls' = inferCalls + 1
    /\ sent' = conversation
    /\ \E reply \in Replies :
           /\ message' = reply
           /\ conversation' = Append(conversation, ToParam(reply))
    /\ idx' = 1
    /\ toolResults' = <<>>
    /\ pc' = "process"
    /\ UNCHANGED <<env, configFile, apiKey>>
    /\ UNCHANGED <<readUserInput, fs, linesRead, lastErr>>

\* ProcessContent putting each result before the earlier ones.
ProcessContentPrepends ==
    /\ pc = "process"
    /\ idx <= Len(message)
    /\ LET content == message[idx] IN
       IF content.type = "tool_use"
           THEN LET r == executeTool(content.id, content.name, content.input, fs)
                IN /\ fs' = r.fs
                   /\ IF r.panicked
                          THEN /\ pc' = "panicked"
                               /\ lastErr' = "panic"
                               /\ UNCHANGED <<toolResults, idx>>
                          ELSE /\ toolResults' = <<r.result>> \o toolResults
                               /\ idx' = idx + 1
                               /\ UNCHANGED <<pc, lastErr>>
           ELSE /\ idx' = idx + 1
                /\ UNCHANGED <<pc, toolResults, fs, lastErr>>
    /\ UNCHANGED <<env, configFile, apiKey>>
    /\ UNCHANGED <<conversation, readUserInput, message, linesRead, inferCalls,
                   sent>>

\* processClaudeResponse, one content block: a text is printed, a tool_use is
\* executed and its result appended, any other block is passed over.
ProcessContent ==
    /\ pc = "process"
    /\ idx <= Len(message)
    /\ LET content == message[idx] IN
       IF content.type = "tool_use"
           THEN LET r == executeTool(content.id, content.name, content.input, fs)
                IN /\ fs' = r.fs
                   /\ IF r.panicked
                          THEN /\ pc' = "panicked"
                               /\ lastErr' = "panic"
                               /\ UNCHANGED <<toolResults, idx>>
                          ELSE /\ toolResults' = Append(toolResults, r.result)
                               /\ idx' = idx + 1
                               /\ UNCHANGED <<pc, lastErr>>
           ELSE /\ idx' = idx + 1
                /\ UNCHANGED <<pc, toolResults, fs, lastErr>>
    /\ UNCHANGED <<env, configFile, apiKey>>
    /\ UNCHANGED <<conversation, readUserInput, message, linesRead, inferCalls,
                   sent>>

\* HandleResults keeping only the tool results as the conversation.
HandleResultsResets ==
    /\ pc = "process"
    /\ idx > Len(message)
    /\ IF Len(toolResults) > 0
           THEN /\ conversation' = <<NewUserMessage(toolResults)>>
                /\ readUserInput' = FALSE
           ELSE /\ readUserInput' = TRUE
                /\ UNCHANGED conversation
    /\ pc' = "top"
    /\ UNCHANGED <<env, configFile, apiKey>>
    /\ UNCHANGED <<message, idx, toolResults, fs, linesRead, inferCalls, lastErr,
                   sent>>

\* HandleResults never asking for user input again.
HandleResultsNeverReads ==
    /\ pc = "process"
    /\ idx > Len(message)
    /\ IF Len(toolResults) > 0
           THEN conversation' = Append(conversation, NewUserMessage(toolResults))
           ELSE UNCHANGED conversation
    /\ readUserInput' = FALSE
    /\ pc' = "top"
    /\ UNCHANGED <<env, configFile, apiKey>>
    /\ UNCHANGED <<message, idx, toolResults, fs, linesRead, inferCalls, lastErr,
                   sent>>

\* Back in Run with the tool results: they go back as one user turn and the
\* loop does not read input, or there are none and it does.
HandleResults ==
    /\ pc = "process"
    /\ idx > Len(message)
    /\ IF Len(toolResults) > 0
           THEN /\ conversation' =
                       Append(conversation, NewUserMessage(toolResults))
                /\ readUserInput' = FALSE
           ELSE /\ readUserInput' = TRUE
                /\ UNCHANGED conversation
    /\ pc' = "top"
    /\ UNCHANGED <<env, configFile, apiKey>>
    /\ UNCHANGED <<message, idx, toolResults, fs, linesRead, inferCalls, lastErr,
                   sent>>

Next ==
    \/ ReadLine
    \/ ReadEOF
    \/ SkipRead
    \/ InferFail
    \/ InferOk
    \/ ProcessContent
    \/ HandleResults

Spec == Init /\ [][Next]_vars

\* ------------------------------------------------- the tools on their own

\* Tool invocations in a row, at most.
MaxCalls == 2

\* Filesystems the tools can meet: the startup one; an empty working
\* directory; one with an empty directory e and an unreadable directory d; one
\* with an empty file f, and an empty directory e inside d.
FsEmpty == (<<>> :> DirEntry) @@ (<<"w">> :> DirEntry)
FsLocked ==
    (<<>> :> DirEntry) @@ (<<"w">> :> DirEntry)
    @@ (<<"w", "f">> :> FileEntry(<<"a", "b">>))
    @@ (<<"w", "e">> :> DirEntry)
    @@ (<<"w", "d">> :> LockedEntry)
    @@ (<<"w", "d", "g">> :> FileEntry(<<"a">>))
FsNested ==
    (<<>> :> DirEntry) @@ (<<"w">> :> DirEntry)
    @@ (<<"w", "f">> :> FileEntry(<<>>))
    @@ (<<"w", "d">> :> DirEntry)
    @@ (<<"w", "d", "e">> :> DirEntry)
    @@ (<<"w", "d", "g">> :> FileEntry(<<"a", "a", "b">>))
    @@ (<<"o">> :> FileEntry(<<"a">>))
Filesystems == {InitFs, FsEmpty, FsLocked, FsNested}

\* Paths the model can supply: "", ".", f, n, d, e, d/g, n/g, f/g, n/., ../o
\* and /o.
ToolPaths ==
    {EmptyPath, Rel1("."), Rel1("f"), Rel1("n"), Rel1("d"), Rel1("e"),
     Rel2("d", "g"), Rel2("n", "g"), Rel2("f", "g"),
     Rel2("n", "."), Rel2("..", "o"), Path(TRUE, <<"o">>)}
\* Texts the model can supply as old_str and new_str.
ToolStrs == {<<>>, <<"a">>, <<"a", "b">>}

ReadCalls ==
    {[name |-> "read_file", input |-> Obj([path |-> JStr(p)])] : p \in ToolPaths}
ListCalls ==
    {[name |-> "list_files", input |-> Obj([path |-> JStr(p)])] : p \in ToolPaths}
EditCalls ==
    {[name |-> "edit_file",
      input |-> Obj([path |-> JStr(p), old_str |-> JStr(o), new_str |-> JStr(n)])] :
         p \in ToolPaths, o \in ToolStrs, n \in ToolStrs}
\* Inputs that lack members, carry others, or do not decode.
OddCalls ==
    {cReadBad, cList, cListBad, cEditBad, cUnknown,
     [name |-> "read_file", input |-> Obj(NoFields)],
     [name |-> "read_file",
      input |-> Obj([path |-> JStr(Rel1("f")), mode |-> JStr(<<"a">>)])],
     [name |-> "list_files", input |-> Obj([depth |-> JNum])],
     [name |-> "edit_file", input |-> Obj([path |-> JStr(Rel1("f"))])],
     [name |-> "edit_file",
      input |-> Obj([path |-> JStr(Rel1("n")), new_str |-> JStr(<<"a">>)])],
     [name |-> "edit_file",
      input |-> Obj([path |-> JStr(Rel1("f")), old_str |-> JStr(<<"a">>),
                     new_str |-> JStr(<<"b">>), count |-> JNum])],
     [name |-> "edit_file",
      input |-> Obj([path |-> JStr(Rel1("f")), old_str |-> JNum,
                     new_str |-> JStr(<<"b">>)])]}
ToolCalls == ReadCalls \cup ListCalls \cup EditCalls \cup OddCalls

\* Any filesystem, and no invocation made yet.
ToolInit ==
    /\ pc = "tool"
    /\ conversation = <<>>
    /\ readUserInput = FALSE
    /\ message = <<>>
    /\ idx = 0
    /\ toolResults = <<>>
    /\ fs \in Filesystems
    /\ linesRead = 0
    /\ inferCalls = 0
    /\ lastErr = ""
    /\ sent = <<>>
    /\ env = StartedKey
    /\ configFile = NoConfigFile
    /\ apiKey = StartedKey

\* executeTool on one invocation: message holds the invocation, toolResults
\* its result, idx counts the invocations.
ToolCall ==
    /\ pc = "tool"
    /\ idx < MaxCalls
    /\ \E c \in ToolCalls :
           LET r == executeTool("t1", c.name, c.input, fs) IN
           /\ message' = <<Use("t1", c)>>
           /\ fs' = r.fs
           /\ toolResults' = IF r.panicked THEN <<>> ELSE <<r.result>>
           /\ pc' = IF r.panicked THEN "panicked" ELSE "tool"
           /\ lastErr' = IF r.panicked THEN "panic" ELSE lastErr
    /\ idx' = idx + 1
    /\ UNCHANGED <<env, configFile, apiKey>>
    /\ UNCHANGED <<conversation, readUserInput, linesRead, inferCalls, sent>>

ToolNext == ToolCall

ToolSpec == ToolInit /\ [][ToolNext]_vars

\* ---------------------------------------------------------- main's startup

\* Values ANTHROPIC_API_KEY can have in the environment: unset or empty,
\* keys shorter than what initializeClient prints, as long, and longer.
EnvKeys ==
    {<<>>, Chars("e", 1), Chars("e", KeyShown - 1), Chars("e", KeyShown),
     Chars("e", KeyShown + 1)}
\* Lines config.env can hold.
ConfigLines ==
    {<<>>, <<"#">>, KeyPrefix,
     KeyPrefix \o Chars("c", 1),
     KeyPrefix \o Chars("c", KeyShown),
     KeyPrefix \o Chars("d", KeyShown + 1),
     <<" ">> \o KeyPrefix \o Chars("c", KeyShown)}
ConfigFiles ==
    {NoConfigFile}
    \cup {ConfigFile(<<l>>) : l \in ConfigLines}
    \cup {ConfigFile(<<l, m>>) : l \in ConfigLines, m \in ConfigLines}

\* The process starts: nothing loaded, no conversation.
StartInit ==
    /\ pc = "main"
    /\ conversation = <<>>
    /\ readUserInput = FALSE
    /\ message = <<>>
    /\ idx = 1
    /\ toolResults = <<>>
    /\ fs = InitFs
    /\ linesRead = 0
    /\ inferCalls = 0
    /\ lastErr = ""
    /\ sent = <<>>
    /\ env \in EnvKeys
    /\ configFile \in ConfigFiles
    /\ apiKey = <<>>

\* initializeClient calls loadAPIKey.
LoadAPIKey ==
    /\ pc = "main"
    /\ apiKey' = loadAPIKey(env, configFile)
    /\ pc' = "loaded"
    /\ UNCHANGED <<conversation, readUserInput, message, idx, toolResults, fs,
                   linesRead, inferCalls, lastErr, sent, env, configFile>>

\* The rest of initializeClient: no key is an error, on which main prints it
\* and exits with status 1; otherwise apiKey[:KeyShown] is printed, which
\* panics for a shorter key, the key is set in the environment and the
\* client is made.
InitializeClient ==
    /\ pc = "loaded"
    /\ IF apiKey = <<>>
           THEN /\ pc' = "exit1"
                /\ lastErr' = "ANTHROPIC_API_KEY is required"
                /\ UNCHANGED env
           ELSE IF Len(apiKey) < KeyShown
               THEN /\ pc' = "panicked"
                    /\ lastErr' = "panic"
                    /\ UNCHANGED env
               ELSE /\ pc' = "client"
                    /\ env' = apiKey
                    /\ UNCHANGED lastErr
    /\ UNCHANGED <<conversation, readUserInput, message, idx, toolResults, fs,
                   linesRead, inferCalls, sent, configFile, apiKey>>

\* main makes the agent and calls Run, which starts its loop with an empty
\* conversation, about to read user input.
StartRun ==
    /\ pc = "client"
    /\ conversation' = <<>>
    /\ readUserInput' = TRUE
    /\ pc' = "top"
    /\ UNCHANGED <<message, idx, toolResults, fs, linesRead, inferCalls, lastErr,
                   sent, env, configFile, apiKey>>

StartNext ==
    \/ LoadAPIKey
    \/ InitializeClient
    \/ StartRun

StartSpec == StartInit /\ [][StartNext]_vars

\* ------------------------------------- Run with an inference that succeeds

\* The longest run of consecutive replies that request a tool.
MaxToolRun == 1

\* The reply asks for a tool.
RequestsTool(reply) == \E i \in 1..Len(reply) : reply[i].type = "tool_use"

\* How many replies in a row, up to the latest, asked for a tool: the turns
\* of tool results at the end of the conversation, each after its reply.
RECURSIVE ToolRun(_)
ToolRun(conv) ==
    IF Len(conv) < 2 THEN 0
    ELSE LET last == conv[Len(conv)] IN
         IF /\ last.role = "user"
            /\ Len(last.content) > 0
            /\ last.content[1].type = "tool_result"
             THEN 1 + ToolRun(SubSeq(conv, 1, Len(conv) - 2))
             ELSE 0

\* Replies of each kind: none of them asks for a tool, or it asks for one
\* that succeeds, fails, changes a file, or cannot decode its input.
LiveReplies ==
    {<<TextBlock("ok")>>, <<Use("t1", cRead)>>, <<Use("t1", cReadMissing)>>,
     <<Use("t1", cEdit)>>, <<Use("t1", cListBad)>>}

\* runInference returns a reply, as in InferOk; a reply asks for a tool only
\* while the run of such replies is shorter than MaxToolRun.
InferOkToolRunBounded ==
    /\ pc = "infer"
    /\ inferCalls' = inferCalls + 1
    /\ sent' = conversation
    /\ \E reply \in LiveReplies :
           /\ RequestsTool(reply) => ToolRun(conversation) < MaxToolRun
           /\ message' = reply
           /\ conversation' = Append(conversation, ToParam(reply))
    /\ idx' = 1
    /\ toolResults' = <<>>
    /\ pc' = "process"
    /\ UNCHANGED <<env, configFile, apiKey>>
    /\ UNCHANGED <<readUserInput, fs, linesRead, lastErr>>

LiveNext ==
    \/ ReadLine
    \/ ReadEOF
    \/ SkipRead
    \/ InferOkToolRunBounded
    \/ ProcessContent
    \/ HandleResults

\* The process keeps running: Run's loop takes its next step whenever it
\* has one.
LiveSpec == Init /\ [][LiveNext]_vars /\ WF_vars(LiveNext)

\* ------------------------------------------------------------------ claims

\* The tool_use blocks of a sequence of content blocks, in order.
ToolUses(blocks) == SelectSeq(blocks, LAMBDA b : b.type = "tool_use")
HasToolUse(blocks) == ToolUses(blocks) # <<>>

\* Turn i + 1 answers the invocations of turn i: a user turn of tool results
\* only, as many as the invocations, the j-th carrying the j-th invocation's id.
Answered(i) ==
    LET uses == ToolUses(conversation[i].content) IN
    /\ i + 1 <= Len(conversation)
    /\ conversation[i + 1].role = "user"
    /\ Len(conversation[i + 1].content) = Len(uses)
    /\ \A j \in 1..Len(uses) :
           /\ conversation[i + 1].content[j].type = "tool_result"
           /\ conversation[i + 1].content[j].id = uses[j].id

\* C1: whenever Run is about to read a user line or to call inference, every
\* assistant turn with tool invocations is immediately followed by a user turn
\* holding exactly one tool result per invocation, with that invocation's id.
C1_ToolUsesAnswered ==
    pc \in {"top", "infer"} =>
        \A i \in 1..Len(conversation) :
            (conversation[i].role = "assistant"
             /\ HasToolUse(conversation[i].content)) => Answered(i)

\* Run is about to call inference after a reply with three invocations (ids
\* t2, t1, t3) was answered.
C1_Witness ==
    /\ pc = "infer"
    /\ \E i \in 1..Len(conversation) :
           /\ conversation[i].role = "assistant"
           /\ Len(ToolUses(conversation[i].content)) = 3
           /\ Answered(i)

\* C2: after a reply with a tool invocation the results are appended as one
\* user turn and the loop goes on to the next inference call, reading no user
\* input on the way.
C2_ToolReplyLeadsToInference ==
    [][/\ (pc = "process" /\ HasToolUse(message)) =>
              /\ pc' \in {"process", "top"}
              /\ linesRead' = linesRead
              /\ pc' = "top" =>
                     /\ ~readUserInput'
                     /\ Len(toolResults) = Len(ToolUses(message))
                     /\ conversation' =
                            Append(conversation, NewUserMessage(toolResults))
       /\ (pc = "top" /\ ~readUserInput) =>
              /\ pc' = "infer"
              /\ linesRead' = linesRead
              /\ conversation' = conversation]_vars

\* C3: after N user lines whose replies hold no tool invocation, the
\* conversation has 2N turns, user and assistant alternating, and Run is
\* about to read user input.
C3_NoToolExchanges ==
    (/\ pc = "top"
     /\ \A i \in 1..Len(conversation) : ~HasToolUse(conversation[i].content))
    => /\ Len(conversation) = 2 * linesRead
       /\ \A i \in 1..Len(conversation) :
              conversation[i].role = (IF i % 2 = 1 THEN "user" ELSE "assistant")
       /\ readUserInput

\* Two exchanges without tools are over, one of them with an empty reply.
C3_Witness ==
    /\ pc = "top"
    /\ readUserInput
    /\ linesRead = 2
    /\ Len(conversation) = 4
    /\ \A i \in 1..Len(conversation) : ~HasToolUse(conversation[i].content)
    /\ \E i \in 1..Len(conversation) :
           conversation[i].role = "assistant" /\ conversation[i].content = <<>>

\* C4: no tool invocation terminates the process: whatever the tool and its
\* input, dispatch returns a tool result and the loop continues.
C4_NoToolFailureTerminates == pc # "panicked"

\* C5: an invocation of a name the registry lacks gets a tool result with the
\* invocation's id, is-error true and the text "tool not found"; no tool runs,
\* the filesystem is unchanged, the loop goes on, and the result goes back to
\* the model in the user turn of tool results.
C5_UnknownToolNotFound ==
    [][/\ (/\ pc = "process"
           /\ idx <= Len(message)
           /\ message[idx].type = "tool_use"
           /\ message[idx].name \notin {"read_file", "list_files", "edit_file"})
          => /\ toolResults' =
                    Append(toolResults,
                           [type |-> "tool_result", id |-> message[idx].id,
                            content |-> MsgText("tool not found"),
                            isError |-> TRUE])
             /\ fs' = fs
             /\ pc' = "process"
             /\ lastErr' = ""
       /\ (pc = "process" /\ pc' = "top" /\ toolResults # <<>>)
          => conversation' = Append(conversation, [role |-> "user",
                                                   content |-> toolResults])
      ]_vars

\* The "tool not found" result of invocation t1 is the first block of the
\* user turn the next inference call is about to send.
C5_Witness ==
    /\ pc = "infer"
    /\ Len(conversation) >= 3
    /\ LET last == conversation[Len(conversation)] IN
       /\ last.role = "user"
       /\ last.content[1].type = "tool_result"
       /\ last.content[1].id = "t1"
       /\ last.content[1].isError
       /\ last.content[1].content = MsgText("tool not found")
    /\ fs = InitFs

\* C6: the result of an invocation of a registered tool carries the
\* invocation's id; it is an error with the failure's message exactly when the
\* tool function returned a failure, and the returned text otherwise.
C6_ResultReflectsOutcome ==
    [][(/\ pc = "process"
        /\ pc' = "process"
        /\ idx <= Len(message)
        /\ message[idx].type = "tool_use"
        /\ message[idx].name \in {"read_file", "list_files", "edit_file"})
       => LET out == Function(message[idx].name, message[idx].input, fs) IN
          /\ Len(toolResults') = Len(toolResults) + 1
          /\ toolResults'[Len(toolResults')].type = "tool_result"
          /\ toolResults'[Len(toolResults')].id = message[idx].id
          /\ toolResults'[Len(toolResults')].isError = out.isErr
          /\ toolResults'[Len(toolResults')].content = out.resp
      ]_vars

\* A reply's registered tools returned a failure (read_file on an undecodable
\* input) and then a success (edit_file creating a file).
C6_Witness ==
    /\ pc = "process"
    /\ Len(toolResults) >= 2
    /\ toolResults[1].isError
    /\ toolResults[1].content = MsgText("invalid input format")
    /\ ~toolResults[2].isError
    /\ toolResults[2].content = PathText("Successfully created file", Rel1("n"), "")

\* C7: an inference call that fails with the overload error does not end the
\* run: the loop goes back to reading user input.
C7_OverloadContinues == ~(pc = "failed" /\ lastErr = "overloaded_error")

\* C8: an inference call that fails with another error ends the run with that
\* error: no turn is appended, no tool runs, nothing is retried or read.
C8_OtherErrorIsFatal ==
    [][/\ (lastErr' \notin {"", "overloaded_error", "panic"})
          => /\ pc' = "failed"
             /\ conversation' = conversation
             /\ fs' = fs
             /\ toolResults' = toolResults
             /\ linesRead' = linesRead
       /\ (pc = "failed" /\ lastErr # "overloaded_error") => FALSE
      ]_vars

\* The second inference call failed with a connection error.
C8_Witness ==
    /\ pc = "failed"
    /\ lastErr = "connection refused"
    /\ inferCalls = 2
    /\ Len(conversation) = 3

\* C9: end-of-input while Run waits for user input closes the loop with
\* success, with no inference call and the conversation unchanged; the loop
\* closes from nowhere else, never with tool results pending, and nothing
\* follows.
C9_EndOfInputCloses ==
    [][/\ (pc' = "closed" /\ pc # "closed")
          => /\ pc = "top"
             /\ readUserInput
             /\ conversation' = conversation
             /\ inferCalls' = inferCalls
             /\ fs' = fs
             /\ lastErr' = ""
             /\ \/ conversation = <<>>
                \/ /\ conversation[Len(conversation)].role = "assistant"
                   /\ ~HasToolUse(conversation[Len(conversation)].content)
       /\ pc = "closed" => FALSE
      ]_vars

\* The loop closed after a round of tools and the model's closing reply.
C9_Witness ==
    /\ pc = "closed"
    /\ lastErr = ""
    /\ Len(conversation) = 4
    /\ conversation[3].content[1].type = "tool_result"

\* The blocks from i on, handled one after the other starting on filesystem f
\* with the results acc: each invocation runs on the filesystem the one before
\* it left, and its result goes after the results so far.
RECURSIVE InOrder(_, _, _, _)
InOrder(blocks, i, f, acc) ==
    IF i > Len(blocks) THEN [results |-> acc, fs |-> f]
    ELSE IF blocks[i].type = "tool_use"
        THEN LET r == executeTool(blocks[i].id, blocks[i].name, blocks[i].input, f)
             IN InOrder(blocks, i + 1, r.fs, Append(acc, r.result))
        ELSE InOrder(blocks, i + 1, f, acc)

\* C10: the blocks of a reply are handled strictly in reply order: an
\* invocation runs to its end before the next block is looked at, on the
\* filesystem the earlier invocations of the reply left, and the results are
\* collected in the order of the invocations.
C10_BlocksInReplyOrder ==
    /\ [](pc = "process" /\ inferCalls = 1 =>
              LET done == InOrder(SubSeq(message, 1, idx - 1), 1, InitFs, <<>>)
              IN toolResults = done.results /\ fs = done.fs)
    /\ [][/\ (pc = "process" /\ pc' = "process")
             => /\ idx <= Len(message)
                /\ idx' = idx + 1
                /\ LET one == InOrder(<<message[idx]>>, 1, fs, toolResults)
                   IN toolResults' = one.results /\ fs' = one.fs
          /\ (pc = "process" /\ pc' = "top")
             => /\ idx = Len(message) + 1
                /\ Len(toolResults) = Len(ToolUses(message))
                /\ \A j \in 1..Len(toolResults) :
                       toolResults[j].id = ToolUses(message)[j].id
         ]_vars

\* edit_file then read_file on the same path in one reply: the edit answered
\* "OK" and the read returned the edited content.
C10_Witness ==
    /\ pc = "process"
    /\ message = <<Use("t1", cEdit), Use("t2", cRead)>>
    /\ idx = 3
    /\ toolResults[1].content = MsgText("OK")
    /\ toolResults[2].content = StrText(<<"b", "b", "b">>)
    /\ ~toolResults[2].isError

\* s is a prefix of t, and shorter.
StrictPrefix(s, t) == Len(s) < Len(t) /\ SubSeq(t, 1, Len(s)) = s

\* C11: the conversation only grows by appending, and every inference call
\* sends all of it: the messages of a call have the messages of the call
\* before it as a strict prefix.
C11_AppendOnlySentInFull ==
    [][/\ Len(conversation) <= Len(conversation')
       /\ SubSeq(conversation', 1, Len(conversation)) = conversation
       /\ inferCalls' # inferCalls =>
              /\ sent' = conversation
              /\ inferCalls > 0 => StrictPrefix(sent, sent')
       /\ inferCalls' = inferCalls => sent' = sent
      ]_vars

\* The third inference call sent five turns, the second had sent three.
C11_Witness ==
    /\ inferCalls = 3
    /\ Len(sent) = 5
    /\ sent = conversation \/ StrictPrefix(sent, conversation)
    /\ sent[4].role = "assistant"

\* ------------------------------------------------------ claims on the tools

\* A step of ToolSpec: the invocation it made is message'[1]; its result, when
\* the tool returned, is toolResults'[1].
Invoked(name) ==
    /\ idx' = idx + 1
    /\ message'[1].name = name
    /\ pc' = "tool"
\* The invocation's arguments as the tool decodes them.
ArgPath == Field(message'[1].input, "path", EmptyPath)
ArgOld == Field(message'[1].input, "old_str", <<>>)
ArgNew == Field(message'[1].input, "new_str", <<>>)
EditDecodes == jsonUnmarshalOk(message'[1].input, {"path", "old_str", "new_str"})
ListDecodes == jsonUnmarshalOk(message'[1].input, {"path"})

\* The path names a regular file of f that can be reached.
ExistingFile(f, p) ==
    LET r == Resolve(f, p) IN r.err = "" /\ IsFile(f, r.node)
\* The path names nothing in f: a directory entry on the way is missing.
NotExist(f, p) ==
    LET r == Resolve(f, p) IN
    p # EmptyPath /\ (r.err = "ENOENT" \/ (r.err = "" /\ r.node \notin DOMAIN f))
ContentAt(f, p) == f[Resolve(f, p).node].c

\* old occurs in s.
Occurs(s, old) ==
    \E i \in 1..(Len(s) - Len(old) + 1) : SubSeq(s, i, i + Len(old) - 1) = old

\* s with every occurrence of a non-empty old, found left to right from
\* position i on without overlap, replaced by new.
RECURSIVE EveryOccurrenceReplaced(_, _, _, _)
EveryOccurrenceReplaced(s, i, old, new) ==
    IF i > Len(s) THEN <<>>
    ELSE IF i + Len(old) - 1 <= Len(s) /\ SubSeq(s, i, i + Len(old) - 1) = old
        THEN new \o EveryOccurrenceReplaced(s, i + Len(old), old, new)
        ELSE <<s[i]>> \o EveryOccurrenceReplaced(s, i + 1, old, new)

\* The step repeats the invocation made just before it: edit_file on an
\* existing file with a non-empty old_str that differs from new_str.
EditRepeated ==
    /\ Invoked("edit_file")
    /\ idx >= 1
    /\ message' = message
    /\ EditDecodes
    /\ ArgOld # <<>>
    /\ ArgOld # ArgNew
    /\ ExistingFile(fs, ArgPath)

\* C12 as stated: the second of two identical edit_file invocations (old_str
\* non-empty, different from new_str) leaves the content the first one left,
\* and fails with "old_str not found" once old_str no longer occurs.
C12_EditTwiceSameAsOnce ==
    [][EditRepeated =>
           /\ fs' = fs
           /\ ~Occurs(ContentAt(fs, ArgPath), ArgOld) =>
                  /\ toolResults'[1].isError
                  /\ toolResults'[1].content = MsgText("old_str not found in file")
      ]_vars

\* C12 amended: the second of two identical edit_file invocations leaves the
\* content the first one left, failing with "old_str not found", when old_str
\* does not occur in that content; when it still occurs (new_str holds old_str,
\* or the replacement put one together) the second invocation answers "OK" and
\* replaces every occurrence again.
C12_EditTwiceWhenOldStrGone ==
    [][EditRepeated =>
           IF Occurs(ContentAt(fs, ArgPath), ArgOld)
               THEN /\ ~toolResults'[1].isError
                    /\ toolResults'[1].content = MsgText("OK")
                    /\ ContentAt(fs', ArgPath) =
                           EveryOccurrenceReplaced(ContentAt(fs, ArgPath), 1,
                                                   ArgOld, ArgNew)
                    /\ fs' # fs
               ELSE /\ fs' = fs
                    /\ toolResults'[1].isError
                    /\ toolResults'[1].content = MsgText("old_str not found in file")
      ]_vars

\* edit_file f, "ab" -> "a" was invoked on the content "aa" that the same
\* invocation leaves of "aba", and failed with "old_str not found".
C12_Witness ==
    /\ pc = "tool"
    /\ idx = 2
    /\ message = <<ToolUseBlock("t1", "edit_file",
                                Obj([path |-> JStr(Rel1("f")),
                                     old_str |-> JStr(<<"a", "b">>),
                                     new_str |-> JStr(<<"a">>)]))>>
    /\ toolResults[1].content = MsgText("old_str not found in file")
    /\ fs[<<"w", "f">>].c = <<"a", "a">>

\* The step invoked edit_file with an empty old_str on a path that does
\* not exist.
EditCreates ==
    /\ Invoked("edit_file")
    /\ EditDecodes
    /\ ArgOld = <<>>
    /\ NotExist(fs, ArgPath)

\* The file at ArgPath was created with content ArgNew, with its missing
\* parent directories and nothing else; the result names the file; read_file
\* on the path then returns ArgNew.
Created ==
    LET node == Resolve(fs', ArgPath).node IN
    /\ ~toolResults'[1].isError
    /\ toolResults'[1].content = PathText("Successfully created file", ArgPath, "")
    /\ Resolve(fs', ArgPath).err = ""
    /\ node \in DOMAIN fs'
    /\ fs'[node] = [k |-> "file", c |-> ArgNew]
    /\ \A n \in DOMAIN fs : fs'[n] = fs[n]
    /\ \A n \in DOMAIN fs' \ DOMAIN fs :
           \/ n = node
           \/ /\ fs'[n].k = "dir"
              /\ Len(n) < Len(node)
              /\ SubSeq(node, 1, Len(n)) = n
    /\ \A i \in 1..(Len(node) - 1) :
           /\ SubSeq(node, 1, i) \in DOMAIN fs'
           /\ fs'[SubSeq(node, 1, i)].k = "dir"
    /\ ReadFile(Obj([path |-> JStr(ArgPath)]), fs') =
           ToolOut(StrText(ArgNew), FALSE, fs', FALSE)

EditExisting ==
    /\ Invoked("edit_file")
    /\ EditDecodes
    /\ ArgOld # <<>>
    /\ ExistingFile(fs, ArgPath)

\* The file at ArgPath now holds its former content with every occurrence of
\* old_str replaced, nothing else changed, and the result is "OK".
ReplacedAll ==
    /\ ~toolResults'[1].isError
    /\ toolResults'[1].content = MsgText("OK")
    /\ fs' = Put(fs, Resolve(fs, ArgPath).node,
                 FileEntry(EveryOccurrenceReplaced(ContentAt(fs, ArgPath), 1,
                                                   ArgOld, ArgNew)))

\* C14 as stated: on an existing file in which a non-empty old_str occurs,
\* edit_file writes back the content with every occurrence replaced by new_str
\* and returns "OK".
C14_ReplacesEveryOccurrence ==
    [][(EditExisting /\ Occurs(ContentAt(fs, ArgPath), ArgOld))
           => ReplacedAll]_vars

\* C14 amended: the same, for old_str different from new_str.
C14_ReplacesEveryOccurrenceOfOther ==
    [][(EditExisting /\ ArgOld # ArgNew /\ Occurs(ContentAt(fs, ArgPath), ArgOld))
           => ReplacedAll]_vars

\* edit_file f, "a" -> "ab" replaced both occurrences in "aba".
C14_Witness ==
    /\ pc = "tool"
    /\ idx = 1
    /\ message = <<ToolUseBlock("t1", "edit_file",
                                Obj([path |-> JStr(Rel1("f")),
                                     old_str |-> JStr(<<"a">>),
                                     new_str |-> JStr(<<"a", "b">>)]))>>
    /\ toolResults[1].content = MsgText("OK")
    /\ fs[<<"w", "f">>].c = <<"a", "b", "b", "a", "b">>

\* The call failed with "old_str not found" and changed nothing.
NotFoundNoWrite ==
    /\ toolResults'[1].isError
    /\ toolResults'[1].content = MsgText("old_str not found in file")
    /\ fs' = fs

\* C15 as stated: on an existing file in which a non-empty old_str does not
\* occur, edit_file fails with "old_str not found" and writes nothing.
C15_AbsentOldStrFails ==
    [][(EditExisting /\ ~Occurs(ContentAt(fs, ArgPath), ArgOld))
           => NotFoundNoWrite]_vars

\* C15 amended: the same, for old_str different from new_str.
C15_AbsentOtherOldStrFails ==
    [][(EditExisting /\ ArgOld # ArgNew /\ ~Occurs(ContentAt(fs, ArgPath), ArgOld))
           => NotFoundNoWrite]_vars

\* edit_file d/g, "ab" -> "" failed on the empty file d/g, which stayed empty.
C15_Witness ==
    /\ pc = "tool"
    /\ idx = 1
    /\ message = <<ToolUseBlock("t1", "edit_file",
                                Obj([path |-> JStr(Rel2("d", "g")),
                                     old_str |-> JStr(<<"a", "b">>),
                                     new_str |-> JStr(<<>>)]))>>
    /\ toolResults[1].isError
    /\ toolResults[1].content = MsgText("old_str not found in file")
    /\ fs[<<"w", "d", "g">>] = [k |-> "file", c |-> <<>>]

\* The step invoked edit_file with an empty path or with old_str = new_str.
EditInvalid ==
    /\ Invoked("edit_file")
    /\ EditDecodes
    /\ (ArgPath = EmptyPath \/ ArgOld = ArgNew)

\* C16: edit_file with an empty path, or with old_str equal to new_str, fails
\* with the invalid-input error and touches no file: the filesystem stays as it
\* was, and on every filesystem, whether or not the target exists, the call
\* returns the same error and leaves that filesystem as it was.
C16_InvalidInputBeforeFilesystem ==
    [][EditInvalid =>
           /\ toolResults'[1].isError
           /\ toolResults'[1].content = MsgText("invalid input parameters")
           /\ fs' = fs
           /\ \A g \in Filesystems :
                  EditFile(message'[1].input, g) =
                      ToolOut(MsgText("invalid input parameters"), TRUE, g, FALSE)
      ]_vars

\* edit_file n, "" -> "" was rejected on a filesystem without n, and n was not
\* created.
C16_Witness ==
    /\ pc = "tool"
    /\ idx = 1
    /\ message = <<ToolUseBlock("t1", "edit_file",
                                Obj([path |-> JStr(Rel1("n")),
                                     old_str |-> JStr(<<>>),
                                     new_str |-> JStr(<<>>)]))>>
    /\ toolResults[1].isError
    /\ toolResults[1].content = MsgText("invalid input parameters")
    /\ <<"w", "n">> \notin DOMAIN fs

\* The step invoked edit_file with a non-empty old_str on a path that does
\* not exist.
EditMissing ==
    /\ Invoked("edit_file")
    /\ EditDecodes
    /\ ArgOld # <<>>
    /\ NotExist(fs, ArgPath)

\* The call failed with the not-found error of opening the path and created
\* nothing.
NotFoundNothingCreated ==
    /\ toolResults'[1].isError
    /\ toolResults'[1].content = PathText("open", ArgPath, "ENOENT")
    /\ fs' = fs

ListDir == IF ArgPath # EmptyPath THEN ArgPath ELSE Rel1(".")
ListRoot == Resolve(fs, ListDir)
\* The entries of f below node, at any depth.
Below(f, node) ==
    {n \in DOMAIN f : Len(n) > Len(node) /\ SubSeq(n, 1, Len(node)) = node}
\* The root is a directory, and it and every directory below it can be read.
ReadableTree ==
    /\ ListRoot.err = ""
    /\ ListRoot.node \in DOMAIN fs
    /\ fs[ListRoot.node].k = "dir"
    /\ \A n \in Below(fs, ListRoot.node) : fs[n].k # "locked"
\* The text of the JSON array of the given elements; "[]" when there is none.
JsonArray(items) == Txt("json", "", EmptyPath, "", <<>>, items, FALSE)

\* C18 as stated: list_files on an existing directory without entries
\* succeeds and returns exactly "[]".
C18_EmptyDirectoryGivesEmptyArray ==
    [][(/\ Invoked("list_files")
        /\ ListDecodes
        /\ ReadableTree
        /\ Below(fs, ListRoot.node) = {})
           => /\ ~toolResults'[1].isError
              /\ toolResults'[1].content = JsonArray(<<>>)
      ]_vars

\* The result is a JSON array that holds, once each, every entry below the
\* root by its path relative to the root, marked "/" exactly for directories.
ListsDescendants ==
    LET root == ListRoot.node
        items == toolResults'[1].content.items
    IN /\ ~toolResults'[1].isError
       /\ toolResults'[1].content = JsonArray(items)
       /\ {items[i] : i \in 1..Len(items)} =
              {Item(SubSeq(n, Len(root) + 1, Len(n)), fs[n].k = "dir") :
                   n \in Below(fs, root)}
       /\ Len(items) = Cardinality(Below(fs, root))
       /\ fs' = fs

\* C19 as stated: for every directory tree list_files returns a JSON array
\* of exactly the descendants of the root, each once, relative to the root,
\* with "/" exactly for directories; an omitted or empty path lists ".".
C19_ListsEveryDescendantOnce ==
    [][(Invoked("list_files") /\ ListDecodes /\ ReadableTree)
           => ListsDescendants]_vars

ReadDecodes == jsonUnmarshalOk(message'[1].input, {"path"})
\* The path names a directory of f.
ExistingDir(f, p) ==
    LET r == Resolve(f, p) IN
    r.err = "" /\ r.node \in DOMAIN f /\ f[r.node].k \in {"dir", "locked"}

\* C21: read_file returns the full content of a readable file unchanged, fails
\* with an error that carries the path when the path does not exist or is a
\* directory, and leaves the filesystem as it was in both outcomes.
C21_ReadWholeOrFailWithPath ==
    [][(Invoked("read_file") /\ ReadDecodes) =>
           /\ fs' = fs
           /\ ExistingFile(fs, ArgPath) =>
                  /\ ~toolResults'[1].isError
                  /\ toolResults'[1].content = StrText(ContentAt(fs, ArgPath))
           /\ (NotExist(fs, ArgPath) \/ ExistingDir(fs, ArgPath)) =>
                  /\ toolResults'[1].isError
                  /\ toolResults'[1].content.k = "path"
                  /\ toolResults'[1].content.m = "failed to read file"
                  /\ toolResults'[1].content.p = ArgPath
                  /\ toolResults'[1].content.cause \in {"ENOENT", "EISDIR", "EACCES"}
      ]_vars

\* read_file d, a directory, failed with an error naming d.
C21_Witness ==
    /\ pc = "tool"
    /\ idx = 1
    /\ message = <<ToolUseBlock("t1", "read_file", Obj([path |-> JStr(Rel1("d"))]))>>
    /\ fs = FsNested
    /\ toolResults[1].isError
    /\ toolResults[1].content = PathText("failed to read file", Rel1("d"), "EISDIR")

\* The members each tool's input has, and those the claim calls required.
KnownFields(name) ==
    IF name = "edit_file" THEN {"path", "old_str", "new_str"} ELSE {"path"}
RequiredFields(name) ==
    IF name = "edit_file" THEN {"path", "old_str", "new_str"}
    ELSE IF name = "read_file" THEN {"path"}
    ELSE {}
\* The input is a JSON object with a member the tool does not know, or without
\* a member it requires.
UnknownOrMissingField(u) ==
    /\ u.input.obj
    /\ \/ DOMAIN u.input.fields \ KnownFields(u.name) # {}
       \/ RequiredFields(u.name) \ DOMAIN u.input.fields # {}

\* C22 as stated: each of the three tools rejects, with an invalid-input
\* error and without executing, an input that carries an unknown field or
\* lacks a required one.
C22_UnknownOrMissingFieldRejected ==
    [][(/\ idx' = idx + 1
        /\ message'[1].name \in {"read_file", "list_files", "edit_file"}
        /\ UnknownOrMissingField(message'[1]))
           => /\ pc' = "tool"
              /\ toolResults'[1].isError
              /\ toolResults'[1].content.k = "msg"
              /\ toolResults'[1].content.m \in
                     {"invalid input format", "json: cannot unmarshal",
                      "invalid input parameters"}
              /\ fs' = fs
      ]_vars

\* The node is the working directory or lies below it.
InWorkingDir(n) ==
    Len(n) >= Len(Cwd) /\ SubSeq(n, 1, Len(Cwd)) = Cwd
\* The path the invoked tool works on, and whether it leads out of the
\* working directory.
ToolPath == IF message'[1].name = "list_files" THEN ListDir ELSE ArgPath
LeadsOutside ==
    LET r == Resolve(fs, ToolPath) IN
    ToolPath # EmptyPath /\ r.err = "" /\ ~InWorkingDir(r.node)

\* C23 as stated: whatever path is supplied, no read_file, list_files or
\* edit_file invocation reads, lists, creates or writes anything outside the
\* working directory: nothing outside changes, and an invocation whose path
\* leads outside returns an error without content.
C23_ConfinedToWorkingDir ==
    [][(/\ idx' = idx + 1
        /\ pc' = "tool"
        /\ message'[1].name \in {"read_file", "list_files", "edit_file"}
        /\ jsonUnmarshalOk(message'[1].input, KnownFields(message'[1].name)))
           => /\ \A n \in (DOMAIN fs \cup DOMAIN fs') :
                     ~InWorkingDir(n) =>
                         /\ n \in DOMAIN fs
                         /\ n \in DOMAIN fs'
                         /\ fs'[n] = fs[n]
              /\ LeadsOutside =>
                     /\ toolResults'[1].isError
                     /\ toolResults'[1].content.s = <<>>
                     /\ toolResults'[1].content.items = <<>>
      ]_vars

\* --------------------------------------------------- claims on the startup

\* The value of the first line of the config file that starts with
\* ANTHROPIC_API_KEY=, "" when the file cannot be read or has no such line.
FirstConfigKey(cfg) ==
    IF cfg.ok /\ \E i \in 1..Len(cfg.lines) : stringsHasPrefix(cfg.lines[i], KeyPrefix)
        THEN LET i == CHOOSE j \in 1..Len(cfg.lines) :
                          /\ stringsHasPrefix(cfg.lines[j], KeyPrefix)
                          /\ \A k \in 1..(j - 1) :
                                 ~stringsHasPrefix(cfg.lines[k], KeyPrefix)
             IN SubSeq(cfg.lines[i], Len(KeyPrefix) + 1, Len(cfg.lines[i]))
        ELSE <<>>

\* The key is the non-empty environment value, else the config file's.
KeyFromEnvThenConfig ==
    (pc = "main" /\ pc' = "loaded") =>
        apiKey' = (IF env # <<>> THEN env ELSE FirstConfigKey(configFile))
\* Without a key startup fails before any conversation.
NoKeyIsFatal ==
    (pc = "loaded" /\ pc' # pc /\ apiKey = <<>>) =>
        /\ pc' = "exit1"
        /\ lastErr' = "ANTHROPIC_API_KEY is required"
        /\ conversation' = <<>>
        /\ inferCalls' = 0
        /\ linesRead' = 0

\* C24 as stated: the key comes from the environment when non-empty there,
\* else from the first ANTHROPIC_API_KEY= line of the config file; without a
\* non-empty key startup fails before any conversation; every non-empty key,
\* whatever its length, is accepted and startup goes on to the loop.
C24_KeyAcquisition ==
    [][/\ KeyFromEnvThenConfig
       /\ NoKeyIsFatal
       /\ (pc = "loaded" /\ pc' # pc /\ apiKey # <<>>) => pc' = "client"
       /\ (pc = "client" /\ pc' # pc) => pc' = "top"
      ]_vars

\* ------------------------------------------------ claims on the loop, again

\* The turns are user, assistant, user, ... and the last one is a user turn.
AlternatesEndingWithUser(conv) ==
    /\ Len(conv) > 0
    /\ \A i \in 1..Len(conv) :
           conv[i].role = (IF i % 2 = 1 THEN "user" ELSE "assistant")
    /\ conv[Len(conv)].role = "user"

C26_FailedEditChangesNothing ==
    [][(Invoked("edit_file") /\ toolResults'[1].isError) => fs' = fs]_vars

\* t is s with new put before every character of s and once at its end.
InsertedEverywhere(s, new, t) ==
    LET k == Len(new) + 1 IN
    /\ Len(t) = Len(s) + (Len(s) + 1) * Len(new)
    /\ \A i \in 0..Len(s) : SubSeq(t, i * k + 1, i * k + Len(new)) = new
    /\ \A i \in 1..Len(s) : t[i * k] = s[i]

\* C27: edit_file with an empty old_str and a non-empty new_str on an existing
\* file returns "OK" and writes the old content with new_str before every
\* character and once at the end: new_str itself for an empty file.
C27_EmptyOldStrInsertsEverywhere ==
    [][(/\ Invoked("edit_file")
        /\ EditDecodes
        /\ ArgOld = <<>>
        /\ ArgNew # <<>>
        /\ ExistingFile(fs, ArgPath))
           => /\ ~toolResults'[1].isError
              /\ toolResults'[1].content = MsgText("OK")
              /\ ExistingFile(fs', ArgPath)
              /\ InsertedEverywhere(ContentAt(fs, ArgPath), ArgNew,
                                    ContentAt(fs', ArgPath))
              /\ ContentAt(fs, ArgPath) = <<>> => ContentAt(fs', ArgPath) = ArgNew
              /\ \A n \in DOMAIN fs' :
                     n # Resolve(fs, ArgPath).node => (n \in DOMAIN fs /\ fs'[n] = fs[n])
              /\ DOMAIN fs' = DOMAIN fs
      ]_vars

\* edit_file f, "" -> "ab" on the content "aba" left four copies of "ab"
\* around the three characters.
C27_Witness ==
    /\ pc = "tool"
    /\ idx = 1
    /\ message = <<ToolUseBlock("t1", "edit_file",
                                Obj([path |-> JStr(Rel1("f")),
                                     old_str |-> JStr(<<>>),
                                     new_str |-> JStr(<<"a", "b">>)]))>>
    /\ toolResults[1].content = MsgText("OK")
    /\ fs[<<"w", "f">>].c =
           <<"a", "b", "a", "a", "b", "b", "a", "b", "a", "a", "b">>

\* -------------------------------------------------- claims on termination

\* C28 as stated: with finitely many input lines and then end-of-input,
\* every inference call succeeding and every run of tool-requesting replies
\* finite, Run eventually reaches Closed and returns success.
C28_RunEventuallyCloses ==
    <>(pc = "closed" /\ lastErr = "")

====
